---- MODULE Spec2Model ----
(***************************************************************************)
(* Model of robot_scheduler.py: the RobotScheduler tick loop over Robot    *)
(* and Platform records.  One action per call of RobotScheduler.__init__   *)
(* and per iteration of the while loop of RobotScheduler.run.              *)
(***************************************************************************)
EXTENDS Integers, Sequences, FiniteSets, TLC

VARIABLES
    robots,        \* the Robot objects, by robot_id (position in the input list)
    platform_map,  \* platform_id -> Platform object
    self_robots,   \* RobotScheduler.robots: the reordered list, as robot ids
    times,         \* RobotScheduler.times
    pc,            \* "loaded", "run" (inside run()), "done" (run() returned)
    paths_input    \* the paths as read from paths_input.csv; never changes

vars == <<robots, platform_map, self_robots, times, pc, paths_input>>

----------------------------------------------------------------------------
(* Bound of the input space: the sum of the lengths of the four paths *)

MaxTotalPath == 6

(* Program constants *)

NumRobots == 4
Working == 1
Waiting == 2
Moving == 3
Busy == 1
Free == 2

RobotIds == 1..NumRobots

(* The rosters the runs are loaded from: robots_input.csv, nodes_input.csv *)
RobotRoster == <<"organizer", "mover", "organizer", "organizer">>
NodeRoster == <<"A", "B", "A", "A">>
Platforms == DOMAIN NodeRoster
Velocities == {0, 1, 5}

----------------------------------------------------------------------------
(* Organizer.action / Mover.action: service duration by robot kind and node *)

Raises(node_type) == node_type \notin {"A", "B"}

action(robot_type, node_type) ==
    IF robot_type = "organizer"
    THEN (IF node_type = "A" THEN 30 ELSE 45)
    ELSE (IF node_type = "A" THEN 20 ELSE 35)

(* self.robots = [robots[i] for i in [0, 2, 1, 3]], as 1-based positions *)
Reorder == <<1, 3, 2, 4>>

(* mutant: robots of equal state come out in reverse list order *)
SortedByState_Unstable(rs, order) ==
    LET Rev(q) == [i \in 1..Len(q) |-> q[Len(q) + 1 - i]]
        InState(s) == Rev(SelectSeq(order, LAMBDA r : rs[r].state = s))
    IN  InState(Working) \o InState(Waiting) \o InState(Moving)

(* mutant: the robots are evaluated in list order, not sorted by state *)
SortedByState_ListOrder(rs, order) == order

(* sorted(self.robots, key = lambda r : r.state): stable, states are 1..3 *)
SortedByState(rs, order) ==
    LET InState(s) == SelectSeq(order, LAMBDA r : rs[r].state = s)
    IN  InState(Working) \o InState(Waiting) \o InState(Moving)

----------------------------------------------------------------------------
(* The body of the for loop of run(), applied to robot r in the pass state *)
(* st = [robots, platform_map, flag, err].                                 *)

(* mutant: a Waiting robot does not count its time_left down *)
Countdown_WaitingStuck(st, r) ==
    LET robot == st.robots[r]
        p == Head(robot.path)
    IN  IF robot.state = Working
        THEN [st EXCEPT !.robots[r].time_left = @ - 1,
                        !.platform_map[p].time_left = @ - 1]
        ELSE IF robot.state = Waiting
             THEN st
             ELSE [st EXCEPT !.robots[r].time_left = @ - 1]

(* mutant: a Working robot's tick is not counted on its platform *)
Countdown_PlatformStuck(st, r) ==
    [st EXCEPT !.robots[r].time_left = @ - 1]

(* lines 165-173: time_left > 0 *)
Countdown(st, r) ==
    LET robot == st.robots[r]
        p == Head(robot.path)
    IN  IF robot.state = Working
        THEN [st EXCEPT !.robots[r].time_left = @ - 1,
                        !.platform_map[p].time_left = @ - 1]
        ELSE [st EXCEPT !.robots[r].time_left = @ - 1]

(* mutant: the tick of the departure is not counted as a tick of the move *)
LeaveWorking_FullVelocity(st, r) ==
    LET robot == st.robots[r]
        p == Head(robot.path)
        platform == st.platform_map[p]
        moved == [st EXCEPT !.robots[r].state = Moving,
                            !.robots[r].time_left = robot.velocity,
                            !.robots[r].path = Tail(@)]
    IN  IF platform.cur_visitor = << >>
        THEN [moved EXCEPT !.err = "IndexError"]
        ELSE IF Tail(platform.cur_visitor) # << >>
             THEN [moved EXCEPT !.platform_map[p].cur_visitor = Tail(@),
                                !.platform_map[p].time_left = @ - 1]
             ELSE [moved EXCEPT !.platform_map[p].cur_visitor = Tail(@),
                                !.platform_map[p].state = Free,
                                !.platform_map[p].time_left = 0]

(* mutant: the platform is not set Free when its last robot leaves *)
LeaveWorking_StaysBusy(st, r) ==
    LET robot == st.robots[r]
        p == Head(robot.path)
        platform == st.platform_map[p]
        moved == [st EXCEPT !.robots[r].state = Moving,
                            !.robots[r].time_left = robot.velocity - 1,
                            !.robots[r].path = Tail(@)]
    IN  IF platform.cur_visitor = << >>
        THEN [moved EXCEPT !.err = "IndexError"]
        ELSE IF Tail(platform.cur_visitor) # << >>
             THEN [moved EXCEPT !.platform_map[p].cur_visitor = Tail(@),
                                !.platform_map[p].time_left = @ - 1]
             ELSE [moved EXCEPT !.platform_map[p].cur_visitor = Tail(@),
                                !.platform_map[p].time_left = 0]

(* lines 176-186: a Working robot whose time_left is not positive *)
LeaveWorking(st, r) ==
    LET robot == st.robots[r]
        p == Head(robot.path)
        platform == st.platform_map[p]
        moved == [st EXCEPT !.robots[r].state = Moving,
                            !.robots[r].time_left = robot.velocity - 1,
                            !.robots[r].path = Tail(@)]
    IN  IF platform.cur_visitor = << >>
        THEN [moved EXCEPT !.err = "IndexError"]
        ELSE IF Tail(platform.cur_visitor) # << >>
             THEN [moved EXCEPT !.platform_map[p].cur_visitor = Tail(@),
                                !.platform_map[p].time_left = @ - 1]
             ELSE [moved EXCEPT !.platform_map[p].cur_visitor = Tail(@),
                                !.platform_map[p].state = Free,
                                !.platform_map[p].time_left = 0]

(* lines 187-190: a Waiting robot whose time_left is not positive *)
StartWorking(st, r) ==
    LET robot == st.robots[r]
        p == Head(robot.path)
        platform == st.platform_map[p]
    IN  IF Raises(platform.node_type)
        THEN [st EXCEPT !.robots[r].state = Working, !.err = "ValueError"]
        ELSE [st EXCEPT !.robots[r].state = Working,
                        !.robots[r].time_left =
                            action(robot.robot_type, platform.node_type) - 1]

(* mutant: an arrival starts the visitor log afresh instead of appending *)
Arrive_LogOverwrite(st, r) ==
    LET robot == st.robots[r]
        p == Head(robot.path)
        platform == st.platform_map[p]
        logged == IF platform.visitor = << >>
                     \/ platform.visitor[Len(platform.visitor)] # r
                  THEN <<r>>
                  ELSE platform.visitor
        queued == [st EXCEPT !.platform_map[p].cur_visitor = Append(@, r),
                             !.platform_map[p].visitor = logged]
    IN  IF platform.state = Busy
        THEN IF Raises(platform.node_type)
             THEN [queued EXCEPT !.robots[r].state = Waiting,
                                 !.robots[r].time_left = platform.time_left,
                                 !.err = "ValueError"]
             ELSE [queued EXCEPT !.robots[r].state = Waiting,
                                 !.robots[r].time_left = platform.time_left,
                                 !.platform_map[p].time_left =
                                     @ + action(robot.robot_type, platform.node_type)]
        ELSE IF Raises(platform.node_type)
             THEN [queued EXCEPT !.robots[r].state = Working,
                                 !.platform_map[p].state = Busy,
                                 !.err = "ValueError"]
             ELSE [queued EXCEPT !.robots[r].state = Working,
                                 !.platform_map[p].state = Busy,
                                 !.robots[r].time_left =
                                     action(robot.robot_type, platform.node_type) - 1,
                                 !.platform_map[p].time_left =
                                     action(robot.robot_type, platform.node_type) - 1]

(* mutant: every arrival is logged, also when the id is the last entry *)
Arrive_LogAlways(st, r) ==
    LET robot == st.robots[r]
        p == Head(robot.path)
        platform == st.platform_map[p]
        logged == Append(platform.visitor, r)
        queued == [st EXCEPT !.platform_map[p].cur_visitor = Append(@, r),
                             !.platform_map[p].visitor = logged]
    IN  IF platform.state = Busy
        THEN IF Raises(platform.node_type)
             THEN [queued EXCEPT !.robots[r].state = Waiting,
                                 !.robots[r].time_left = platform.time_left,
                                 !.err = "ValueError"]
             ELSE [queued EXCEPT !.robots[r].state = Waiting,
                                 !.robots[r].time_left = platform.time_left,
                                 !.platform_map[p].time_left =
                                     @ + action(robot.robot_type, platform.node_type)]
        ELSE IF Raises(platform.node_type)
             THEN [queued EXCEPT !.robots[r].state = Working,
                                 !.platform_map[p].state = Busy,
                                 !.err = "ValueError"]
             ELSE [queued EXCEPT !.robots[r].state = Working,
                                 !.platform_map[p].state = Busy,
                                 !.robots[r].time_left =
                                     action(robot.robot_type, platform.node_type) - 1,
                                 !.platform_map[p].time_left =
                                     action(robot.robot_type, platform.node_type) - 1]

(* lines 191-204: a Moving robot whose time_left is not positive *)
Arrive(st, r) ==
    LET robot == st.robots[r]
        p == Head(robot.path)
        platform == st.platform_map[p]
        logged == IF platform.visitor = << >>
                     \/ platform.visitor[Len(platform.visitor)] # r
                  THEN Append(platform.visitor, r)
                  ELSE platform.visitor
        queued == [st EXCEPT !.platform_map[p].cur_visitor = Append(@, r),
                             !.platform_map[p].visitor = logged]
    IN  IF platform.state = Busy
        THEN IF Raises(platform.node_type)
             THEN [queued EXCEPT !.robots[r].state = Waiting,
                                 !.robots[r].time_left = platform.time_left,
                                 !.err = "ValueError"]
             ELSE [queued EXCEPT !.robots[r].state = Waiting,
                                 !.robots[r].time_left = platform.time_left,
                                 !.platform_map[p].time_left =
                                     @ + action(robot.robot_type, platform.node_type)]
        ELSE IF Raises(platform.node_type)
             THEN [queued EXCEPT !.robots[r].state = Working,
                                 !.platform_map[p].state = Busy,
                                 !.err = "ValueError"]
             ELSE [queued EXCEPT !.robots[r].state = Working,
                                 !.platform_map[p].state = Busy,
                                 !.robots[r].time_left =
                                     action(robot.robot_type, platform.node_type) - 1,
                                 !.platform_map[p].time_left =
                                     action(robot.robot_type, platform.node_type) - 1]

(* mutant: time_spend is counted only in the ticks that count time_left down *)
EvalRobot_SpendOnCountdown(st, r) ==
    LET robot == st.robots[r]
    IN  IF robot.path = << >>
        THEN st
        ELSE LET s1 == [st EXCEPT !.flag = TRUE]
             IN  IF robot.time_left > 0
                 THEN Countdown([s1 EXCEPT !.robots[r].time_spend = @ + 1], r)
                 ELSE CASE robot.state = Working -> LeaveWorking(s1, r)
                        [] robot.state = Waiting -> StartWorking(s1, r)
                        [] robot.state = Moving -> Arrive(s1, r)

(* mutant: flag is set only in the ticks that count time_left down *)
EvalRobot_FlagOnCountdown(st, r) ==
    LET robot == st.robots[r]
    IN  IF robot.path = << >>
        THEN st
        ELSE LET s1 == [st EXCEPT !.robots[r].time_spend = @ + 1]
             IN  IF robot.time_left > 0
                 THEN Countdown([s1 EXCEPT !.flag = TRUE], r)
                 ELSE CASE robot.state = Working -> LeaveWorking(s1, r)
                        [] robot.state = Waiting -> StartWorking(s1, r)
                        [] robot.state = Moving -> Arrive(s1, r)

(* mutant: a robot whose path is empty is not skipped, its clock runs on *)
EvalRobot_NoSkip(st, r) ==
    LET robot == st.robots[r]
    IN  IF robot.path = << >>
        THEN [st EXCEPT !.robots[r].time_spend = @ + 1]
        ELSE LET s1 == [st EXCEPT !.flag = TRUE, !.robots[r].time_spend = @ + 1]
             IN  IF robot.time_left > 0
                 THEN Countdown(s1, r)
                 ELSE CASE robot.state = Working -> LeaveWorking(s1, r)
                        [] robot.state = Waiting -> StartWorking(s1, r)
                        [] robot.state = Moving -> Arrive(s1, r)

(* lines 155-204: one iteration of the for loop *)
EvalRobot(st, r) ==
    LET robot == st.robots[r]
    IN  IF robot.path = << >>
        THEN st
        ELSE LET s1 == [st EXCEPT !.flag = TRUE, !.robots[r].time_spend = @ + 1]
             IN  IF robot.time_left > 0
                 THEN Countdown(s1, r)
                 ELSE CASE robot.state = Working -> LeaveWorking(s1, r)
                        [] robot.state = Waiting -> StartWorking(s1, r)
                        [] robot.state = Moving -> Arrive(s1, r)

(* lines 154-204: the for loop over the sorted robots; an exception ends it *)
RECURSIVE RunPass(_, _)
RunPass(st, order) ==
    IF order = << >> \/ st.err # "none"
    THEN st
    ELSE RunPass(EvalRobot(st, Head(order)), Tail(order))

----------------------------------------------------------------------------
(* RobotScheduler.__init__, lines 133-142, for one robot *)
InitRobot(st, r) ==
    LET robot == st.robots[r]
    IN  IF robot.path = << >>
        THEN [st EXCEPT !.err = "IndexError"]
        ELSE LET p == Head(robot.path)
                 platform == st.platform_map[p]
             IN  IF Raises(platform.node_type)
                 THEN [st EXCEPT !.robots[r].state = Working, !.err = "ValueError"]
                 ELSE [st EXCEPT
                         !.robots[r].state = Working,
                         !.robots[r].time_left =
                             action(robot.robot_type, platform.node_type),
                         !.platform_map[p].state = Busy,
                         !.platform_map[p].time_left =
                             action(robot.robot_type, platform.node_type),
                         !.platform_map[p].cur_visitor = Append(@, r),
                         !.platform_map[p].visitor = Append(@, r)]

RECURSIVE InitPass(_, _)
InitPass(st, order) ==
    IF order = << >> \/ st.err # "none"
    THEN st
    ELSE InitPass(InitRobot(st, Head(order)), Tail(order))

----------------------------------------------------------------------------
(* InputReader.read_robots / read_platforms: the loaded records *)

LoadedRobot(robot_type, velocity, path) ==
    [robot_type |-> robot_type, velocity |-> velocity, state |-> 1,
     path |-> path, time_left |-> 0, time_spend |-> 0]

LoadedPlatform(node_type) ==
    [node_type |-> node_type, state |-> 2, time_left |-> 0,
     cur_visitor |-> << >>, visitor |-> << >>]

(* paths_input.csv: robot r starts at its own platform or at a shared one, *)
(* and every later stop is one of the two platforms 1 (node A), 2 (node B)  *)
FirstOf == <<{1}, {2, 1}, {3, 1}, {4, 2}>>

(* every robot at its own platform, but robot 2 may share platform 1 *)
FirstOfFew == <<{1}, {2, 1}, {3}, {4}>>

(* every robot starts at its own platform *)
FirstOfOwn == <<{1}, {2}, {3}, {4}>>

Targets == {1, 2}

PathsOfLen(firsts, n) ==
    {<<f>> \o t : f \in firsts, t \in [1..(n - 1) -> Targets]}

RECURSIVE SumLen(_, _)
SumLen(lens, n) == IF n = 0 THEN 0 ELSE lens[n] + SumLen(lens, n - 1)

(* the lengths of the four paths: each at least 1, at most total together *)
LenMaps(total) ==
    {lens \in [RobotIds -> 1..(total - NumRobots + 1)] :
        SumLen(lens, NumRobots) <= total}

Loaded(roster, v, paths) ==
    /\ robots = [r \in RobotIds |-> LoadedRobot(roster[r], v, paths[r])]
    /\ platform_map = [p \in Platforms |-> LoadedPlatform(NodeRoster[p])]
    /\ self_robots = << >>
    /\ times = 0
    /\ pc = "loaded"
    /\ paths_input = paths

InitWith(roster, vs, firsts, total) ==
    \E v \in vs, lens \in LenMaps(total) :
        \E p1 \in PathsOfLen(firsts[1], lens[1]),
           p2 \in PathsOfLen(firsts[2], lens[2]),
           p3 \in PathsOfLen(firsts[3], lens[3]),
           p4 \in PathsOfLen(firsts[4], lens[4]) :
            Loaded(roster, v, <<p1, p2, p3, p4>>)

Init == InitWith(RobotRoster, Velocities, FirstOf, MaxTotalPath)

----------------------------------------------------------------------------
(* RobotScheduler.__init__ *)
SchedulerInit ==
    /\ pc = "loaded"
    /\ \E st \in {InitPass([robots |-> robots, platform_map |-> platform_map,
                             flag |-> FALSE, err |-> "none"], Reorder)} :
           /\ st.err = "none"
           /\ robots' = st.robots
           /\ platform_map' = st.platform_map
    /\ self_robots' = Reorder
    /\ times' = 0
    /\ pc' = "run"
    /\ UNCHANGED paths_input

(* One iteration of the while loop of run() *)
PassResult ==
    RunPass([robots |-> robots, platform_map |-> platform_map,
             flag |-> FALSE, err |-> "none"],
            SortedByState(robots, self_robots))

(* an iteration that finds a robot with a non-empty path: the loop goes on *)
Tick ==
    /\ pc = "run"
    /\ \E st \in {PassResult} :
           /\ st.err = "none"
           /\ st.flag
           /\ robots' = st.robots
           /\ platform_map' = st.platform_map
    /\ times' = times + 1
    /\ pc' = "run"
    /\ UNCHANGED <<self_robots, paths_input>>

(* the iteration that finds every path empty: flag stays False, run() returns *)
Halt ==
    /\ pc = "run"
    /\ \E st \in {PassResult} :
           /\ st.err = "none"
           /\ ~st.flag
           /\ robots' = st.robots
           /\ platform_map' = st.platform_map
    /\ times' = times + 1
    /\ pc' = "done"
    /\ UNCHANGED <<self_robots, paths_input>>

Next == SchedulerInit \/ Tick \/ Halt

Spec == Init /\ [][Next]_vars

(* Every robot starts alone at its own platform, one more stop: enough for *)
(* three robots to reach one platform in the same tick                      *)
InitMeet == InitWith(RobotRoster, {1, 5}, FirstOfOwn, MaxTotalPath + 1)

SpecMeet == InitMeet /\ [][Next]_vars

(* A fleet of organizers as slow on the road as at a node B platform, one   *)
(* more stop: the longest runs per stop                                     *)
InitLong ==
    InitWith([r \in RobotIds |-> "organizer"], {45}, FirstOfOwn, MaxTotalPath + 1)

SpecLong == InitLong /\ [][Next]_vars

(* run() is one sequential loop: an iteration that can run does run *)
InitFair == InitWith(RobotRoster, {1}, FirstOfFew, MaxTotalPath - 1)

FairSpec == InitFair /\ [][Next]_vars /\ WF_vars(Next)

----------------------------------------------------------------------------
(* Runs over a nodes_input.csv with an unrecognized node type: action()     *)
(* raises ValueError, nothing catches it, __init__ or run() is left at the  *)
(* raising line with every assignment made before it still in place         *)

NodeRosterBad == <<"A", "B", "A", "A", "C">>

(* robot 4 may start at the platform of the unrecognized node *)
FirstOfBad == <<{1}, {2}, {3}, {4, 5}>>

(* the later stops: platform 2 (node B) or the unrecognized platform 5 *)
TargetsBad == {2, 5}

PathsOfLenBad(firsts, n) ==
    {<<f>> \o t : f \in firsts, t \in [1..(n - 1) -> TargetsBad]}

LoadedBad(v, paths) ==
    /\ robots = [r \in RobotIds |-> LoadedRobot(RobotRoster[r], v, paths[r])]
    /\ platform_map =
           [p \in DOMAIN NodeRosterBad |-> LoadedPlatform(NodeRosterBad[p])]
    /\ self_robots = << >>
    /\ times = 0
    /\ pc = "loaded"
    /\ paths_input = paths

InitBad ==
    \E v \in {1, 5}, lens \in LenMaps(MaxTotalPath) :
        \E p1 \in PathsOfLenBad(FirstOfBad[1], lens[1]),
           p2 \in PathsOfLenBad(FirstOfBad[2], lens[2]),
           p3 \in PathsOfLenBad(FirstOfBad[3], lens[3]),
           p4 \in PathsOfLenBad(FirstOfBad[4], lens[4]) :
            LoadedBad(v, <<p1, p2, p3, p4>>)

(* __init__ left by an exception: the objects keep what the loop has done *)
SchedulerInitRaise ==
    /\ pc = "loaded"
    /\ \E st \in {InitPass([robots |-> robots, platform_map |-> platform_map,
                             flag |-> FALSE, err |-> "none"], Reorder)} :
           /\ st.err # "none"
           /\ robots' = st.robots
           /\ platform_map' = st.platform_map
    /\ self_robots' = Reorder
    /\ times' = 0
    /\ pc' = "error"
    /\ UNCHANGED paths_input

(* an iteration of run() left by an exception *)
TickRaise ==
    /\ pc = "run"
    /\ \E st \in {PassResult} :
           /\ st.err # "none"
           /\ robots' = st.robots
           /\ platform_map' = st.platform_map
    /\ times' = times + 1
    /\ pc' = "error"
    /\ UNCHANGED <<self_robots, paths_input>>

NextBad == SchedulerInit \/ SchedulerInitRaise \/ Tick \/ TickRaise \/ Halt

SpecBad == InitBad /\ [][NextBad]_vars

----------------------------------------------------------------------------
(* Runs over a robots_input.csv of five robots: __init__ indexes the input  *)
(* list at 0, 2, 1, 3 and accepts any list of at least four robots          *)

RobotRosterFive == RobotRoster \o <<"mover">>

(* the fifth robot's path *)
PathsOfFifth == {<<2>>, <<1, 2>>}

LoadedFive(v, paths) ==
    /\ robots = [r \in DOMAIN RobotRosterFive |->
                    LoadedRobot(RobotRosterFive[r], v, paths[r])]
    /\ platform_map = [p \in Platforms |-> LoadedPlatform(NodeRoster[p])]
    /\ self_robots = << >>
    /\ times = 0
    /\ pc = "loaded"
    /\ paths_input = paths

InitFive ==
    \E v \in {1, 5}, lens \in LenMaps(MaxTotalPath), p5 \in PathsOfFifth :
        \E p1 \in PathsOfLen(FirstOfOwn[1], lens[1]),
           p2 \in PathsOfLen(FirstOfOwn[2], lens[2]),
           p3 \in PathsOfLen(FirstOfOwn[3], lens[3]),
           p4 \in PathsOfLen(FirstOfOwn[4], lens[4]) :
            LoadedFive(v, <<p1, p2, p3, p4, p5>>)

SpecFive == InitFive /\ [][Next]_vars

----------------------------------------------------------------------------
(* Vocabulary of the properties *)

(* a tick boundary: __init__ has returned, no iteration of run() is under way *)
AtBoundary == pc \in {"run", "done"}

Active(r) == robots[r].path # << >>

At(r, p) == Active(r) /\ Head(robots[r].path) = p

WorkingAt(p) == {r \in RobotIds : At(r, p) /\ robots[r].state = Working}

Uses(r, p) == \E i \in DOMAIN paths_input[r] : paths_input[r][i] = p

(* no other robot's path contains a platform of r's path *)
Alone(r) ==
    \A q \in RobotIds \ {r} :
        \A i \in DOMAIN paths_input[r] : ~Uses(q, paths_input[r][i])

Duration(r, p) == action(robots[r].robot_type, platform_map[p].node_type)

----------------------------------------------------------------------------
(* C1: mutual exclusion.  At every tick boundary every platform has at most *)
(* one robot with a non-empty path that is Working with that platform at    *)
(* the front of its path, whatever the paths are.                           *)
C1_MutualExclusion ==
    AtBoundary => \A p \in Platforms : Cardinality(WorkingAt(p)) <= 1

(* C2: an Organizer with velocity 5 and path [P1 (A), P2 (B)], alone on     *)
(* both platforms, ends ticks 1..30 Working at P1, ticks 31..35 Moving,     *)
(* ticks 36..80 Working at P2, and has time_spend 80 when run() has halted. *)
C2_Scenario(r) ==
    /\ robots[r].robot_type = "organizer"
    /\ robots[r].velocity = 5
    /\ Len(paths_input[r]) = 2
    /\ NodeRoster[paths_input[r][1]] = "A"
    /\ NodeRoster[paths_input[r][2]] = "B"
    /\ Alone(r)

C2_UncontendedRun ==
    \A r \in RobotIds :
        C2_Scenario(r) /\ AtBoundary =>
            /\ times \in 1..30 =>
                   robots[r].state = Working /\ At(r, paths_input[r][1])
            /\ times \in 31..35 => robots[r].state = Moving
            /\ times \in 36..80 =>
                   robots[r].state = Working /\ At(r, paths_input[r][2])
            /\ pc = "done" => robots[r].time_spend = 80

(* C3: a robot whose path is one platform that no other robot uses has an   *)
(* empty path after exactly duration(kind, node_type) ticks, its final      *)
(* time_spend is that duration, and it is Moving at no tick boundary.       *)
C3_SinglePlatform ==
    \A r \in RobotIds :
        Len(paths_input[r]) = 1 /\ Alone(r) /\ AtBoundary =>
            LET d == Duration(r, paths_input[r][1])
            IN  /\ Active(r) <=> times < d
                /\ pc = "done" => robots[r].time_spend = d
                /\ robots[r].state # Moving

(* C4: time_spend is 0 after initialization, a tick adds exactly 1 to it    *)
(* for every robot whose path is non-empty when it is evaluated and leaves  *)
(* it alone for the others; so at every tick boundary a robot with a        *)
(* non-empty path has time_spend = times.                                   *)
C4_TickStep ==
    /\ pc = "loaded" => \A r \in RobotIds : robots'[r].time_spend = 0
    /\ pc = "run" =>
          \A r \in RobotIds :
              robots'[r].time_spend =
                  robots[r].time_spend + (IF Active(r) THEN 1 ELSE 0)

C4_AtBoundary ==
    AtBoundary => \A r \in RobotIds : Active(r) => robots[r].time_spend = times

C4_TimeSpend == [][C4_TickStep]_vars /\ []C4_AtBoundary

(* a boundary where one robot has finished earlier and another still runs *)
C4_Witness ==
    /\ pc = "run"
    /\ \E r, q \in RobotIds :
          /\ ~Active(r) /\ robots[r].time_spend < times
          /\ Active(q) /\ robots[q].time_spend = times /\ times > 30

(* C5: termination.  With finite paths run() reaches the pass in which     *)
(* every path is empty and halts, contended and shared platforms included.  *)
C5_Termination == <>(pc = "done" /\ \A r \in RobotIds : ~Active(r))

(* run() has returned in a run where robots 1 and 2 shared their first      *)
(* platform and a third robot has come to it                                *)
C5_Witness ==
    /\ pc = "done"
    /\ paths_input[1][1] = paths_input[2][1]
    /\ \E p \in Platforms : Len(platform_map[p].visitor) >= 3

(* C6: tick bound.  When run() halts, times is at most the sum of the      *)
(* initial path lengths multiplied by the maximum over the service          *)
(* durations and robot velocities occurring in the instance.                *)
MaxOf(S) == CHOOSE x \in S : \A y \in S : y <= x

TotalPathLen == SumLen([r \in RobotIds |-> Len(paths_input[r])], NumRobots)

DurationsUsed ==
    UNION {{action(robots[r].robot_type, NodeRoster[paths_input[r][i]]) :
               i \in DOMAIN paths_input[r]} : r \in RobotIds}

VelocitiesUsed == {robots[r].velocity : r \in RobotIds}

C6_TickBound ==
    pc = "done" =>
        times <= TotalPathLen * MaxOf(DurationsUsed \cup VelocitiesUsed)

(* C6 amended: a stop costs a service and a move, so the factor is the sum  *)
(* of the largest service duration and the largest velocity (a move takes   *)
(* at least one tick): times never exceeds                                  *)
(* sum(path lengths) * (max duration + max(1, max velocity)).               *)
C6_TickBoundSum ==
    AtBoundary =>
        times <= TotalPathLen
                   * (MaxOf(DurationsUsed) + MaxOf(VelocitiesUsed \cup {1}))

(* run() has halted after more ticks than the product bound allows *)
C6_Witness ==
    /\ pc = "done"
    /\ times > TotalPathLen * MaxOf(DurationsUsed \cup VelocitiesUsed)

(* C7: no robot id occurs twice in a platform's cur_visitor queue, in any   *)
(* reachable state and for every assignment of paths.                       *)
C7_NoDuplicateVisitor ==
    \A p \in Platforms :
        \A i, j \in DOMAIN platform_map[p].cur_visitor :
            i # j => platform_map[p].cur_visitor[i] # platform_map[p].cur_visitor[j]

(* C8: every robot's time_left is >= 0 in every reachable state, for every  *)
(* velocity the loader accepts and every assignment of paths.               *)
C8_TimeLeftNonNegative == \A r \in RobotIds : robots[r].time_left >= 0

----------------------------------------------------------------------------
(* Vocabulary of the properties about one tick *)

Pos(seq, r) == CHOOSE i \in DOMAIN seq : seq[i] = r

(* the order in which the coming tick evaluates the robots *)
TickOrder == SortedByState(robots, self_robots)

(* the pass state of the coming tick at the moment robot r is evaluated *)
PassBefore(r) ==
    RunPass([robots |-> robots, platform_map |-> platform_map,
             flag |-> FALSE, err |-> "none"],
            SubSeq(TickOrder, 1, Pos(TickOrder, r) - 1))

(* r is Moving, its countdown is over and p is the next stop of its path *)
Arriving(r, p) ==
    At(r, p) /\ robots[r].state = Moving /\ robots[r].time_left = 0

(* another Moving robot whose countdown is over reaches p in the coming     *)
(* tick between the evaluation of a and that of b                           *)
ArrivalBetween(a, b, p) ==
    \E c \in RobotIds \ {a, b} :
        /\ At(c, p) /\ robots[c].state = Moving /\ robots[c].time_left <= 0
        /\ Pos(self_robots, a) < Pos(self_robots, c)
        /\ Pos(self_robots, c) < Pos(self_robots, b)

(* what C9 promises of the tick for a, the earlier of the two in self_robots *)
C9_Outcome(a, b, p) ==
    /\ robots'[a].state = Working
    /\ robots'[a].path = robots[a].path
    /\ robots'[a].time_left = Duration(a, p) - 1
    /\ robots'[b].state = Waiting
    /\ robots'[b].path = robots[b].path
    /\ robots'[b].time_left = robots'[a].time_left

C9_Case(a, b, p) ==
    /\ a # b
    /\ Arriving(a, p) /\ Arriving(b, p)
    /\ Pos(self_robots, a) < Pos(self_robots, b)
    /\ LET first == IF Pos(TickOrder, a) < Pos(TickOrder, b) THEN a ELSE b
       IN  PassBefore(first).platform_map[p].state = Free

(* C9: two Moving robots with time_left 0 and the same next platform, Free  *)
(* when the first of them is evaluated: after the tick the one earlier in   *)
(* the scheduler's robot sequence is Working there with time_left =         *)
(* duration - 1, the other is Waiting with the first robot's time_left.     *)
C9_Step ==
    pc = "run" =>
        \A a, b \in RobotIds : \A p \in Platforms :
            C9_Case(a, b, p) => C9_Outcome(a, b, p)

C9_SimultaneousArrival == [][C9_Step]_vars

(* C9 amended: the same, provided no third Moving robot whose countdown is  *)
(* over reaches that platform between the two in the same tick.             *)
C9_StepPair ==
    pc = "run" =>
        \A a, b \in RobotIds : \A p \in Platforms :
            C9_Case(a, b, p) /\ ~ArrivalBetween(a, b, p) => C9_Outcome(a, b, p)

C9_SimultaneousPair == [][C9_StepPair]_vars

(* r is at the second stop of its path and reached it without any wait *)
JustArrived(r) ==
    /\ Len(paths_input[r]) = Len(robots[r].path) + 1
    /\ robots[r].velocity >= 1
    /\ times = action(robots[r].robot_type, NodeRoster[paths_input[r][1]])
                  + robots[r].velocity + 1

(* the boundary after two robots have reached a never visited platform in   *)
(* the same tick: the first serves, the second waits for as long            *)
C9_Witness ==
    /\ pc = "run"
    /\ \E p \in Platforms : \E a, b \in RobotIds :
          /\ a # b /\ JustArrived(a) /\ JustArrived(b)
          /\ platform_map[p].visitor = <<a, b>>
          /\ platform_map[p].cur_visitor = <<a, b>>
          /\ At(a, p) /\ robots[a].state = Working
          /\ robots[a].time_left = Duration(a, p) - 1
          /\ At(b, p) /\ robots[b].state = Waiting
          /\ robots[b].time_left = robots[a].time_left

(* what C10 promises of the tick *)
C10_Case(r1, r2, p) ==
    /\ r1 # r2
    /\ At(r1, p) /\ robots[r1].state = Working /\ robots[r1].time_left = 0
    /\ platform_map[p].cur_visitor = <<r1>>
    /\ Arriving(r2, p)

C10_Outcome(r2, p) ==
    /\ robots'[r2].state = Working
    /\ robots'[r2].path = robots[r2].path
    /\ robots'[r2].time_left = Duration(r2, p) - 1
    /\ platform_map'[p].state = Busy

(* an earlier Moving robot whose countdown is over reaches p in the tick *)
ArrivalAhead(b, p) ==
    \E c \in RobotIds \ {b} :
        /\ At(c, p) /\ robots[c].state = Moving /\ robots[c].time_left <= 0
        /\ Pos(self_robots, c) < Pos(self_robots, b)

(* C10: R1 Working with time_left 0 as the only entry of P's queue, R2      *)
(* Moving with time_left 0 and P next: after the tick R2 is Working at P    *)
(* with time_left = duration - 1 and P is Busy, wherever R1 and R2 stand    *)
(* in the robot list.                                                       *)
C10_Step ==
    pc = "run" =>
        \A r1, r2 \in RobotIds : \A p \in Platforms :
            C10_Case(r1, r2, p) => C10_Outcome(r2, p)

C10_HandOver == [][C10_Step]_vars

(* C10 amended: the same, provided no Moving robot that stands before R2 in *)
(* the robot list reaches P in that tick (it would take the freed slot).    *)
C10_StepFirst ==
    pc = "run" =>
        \A r1, r2 \in RobotIds : \A p \in Platforms :
            C10_Case(r1, r2, p) /\ ~ArrivalAhead(r2, p) => C10_Outcome(r2, p)

C10_HandOverFirst == [][C10_StepFirst]_vars

(* r has left its platform in the tick that has just ended *)
JustLeft(r) ==
    /\ robots[r].state = Moving
    /\ robots[r].time_left = robots[r].velocity - 1
    /\ robots[r].time_spend = times

(* the boundary after a hand-over: r1 has left p in the tick in which r2,   *)
(* standing after r1 in the robot list or before it, has arrived and begun  *)
C10_Witness ==
    /\ pc = "run"
    /\ \E p \in Platforms : \E r1, r2 \in RobotIds :
          /\ r1 # r2 /\ JustLeft(r1) /\ JustArrived(r2)
          /\ Pos(self_robots, r2) < Pos(self_robots, r1)
          /\ platform_map[p].visitor = <<r1, r2>>
          /\ platform_map[p].cur_visitor = <<r2>>
          /\ platform_map[p].state = Busy
          /\ At(r2, p) /\ robots[r2].state = Working
          /\ robots[r2].time_left = Duration(r2, p) - 1

----------------------------------------------------------------------------
IsPrefix(s, t) == Len(s) <= Len(t) /\ SubSeq(t, 1, Len(s)) = s

(* C11: the visitor log is append-only.  Across __init__ and every tick of  *)
(* run() each platform's visitor list after the step has the list before    *)
(* the step as a prefix: nothing is removed, reordered or overwritten.      *)
C11_Step ==
    \A p \in DOMAIN platform_map :
        IsPrefix(platform_map[p].visitor, platform_map'[p].visitor)

C11_AppendOnly == [][C11_Step]_vars

(* a log that __init__ began with one entry and two arrivals have extended *)
C11_Witness ==
    /\ pc = "run"
    /\ \E p \in DOMAIN platform_map :
          /\ Len(platform_map[p].visitor) >= 3
          /\ Cardinality({r \in RobotIds : paths_input[r][1] = p}) = 1
          /\ paths_input[platform_map[p].visitor[1]][1] = p

----------------------------------------------------------------------------
(* the platform at the front of r's path has an unrecognized node type *)
AtUnknownNode(r) ==
    Active(r) /\ Raises(platform_map[Head(robots[r].path)].node_type)

(* the coming step makes some robot start or queue for service at a         *)
(* platform of unrecognized node type: in __init__ its first platform, in   *)
(* a tick the platform a Moving robot whose countdown is over arrives at    *)
C12_Case ==
    \/ pc = "loaded" /\ \E r \in RobotIds : AtUnknownNode(r)
    \/ pc = "run" /\ \E r \in RobotIds :
           AtUnknownNode(r) /\ robots[r].state = Moving
                            /\ robots[r].time_left <= 0

(* the step ends in the error state, where nothing follows *)
C12_Aborts == C12_Case => pc' = "error"

C12_Stays == pc = "error" => pc' = "error" /\ times' = times

(* the aborted step leaves the robot and platform fields as they were *)
C12_NoPartial ==
    pc' = "error" /\ pc # "error" =>
        robots' = robots /\ platform_map' = platform_map

(* C12: an unknown node type is fatal.  The step in which a robot starts or *)
(* queues for service at a platform whose node_type is neither A nor B ends *)
(* in the error state, no tick follows and run() never completes; and the   *)
(* aborted step leaves the robot and platform fields as they were before.   *)
C12_UnknownNodeFatal ==
    [][C12_Aborts /\ C12_Stays /\ C12_NoPartial]_vars

----------------------------------------------------------------------------
(* the input list of n robots with its second and third elements exchanged *)
SwapSecondThird(n) ==
    [i \in 1..n |-> IF i = 2 THEN 3 ELSE IF i = 3 THEN 2 ELSE i]

(* after the step r is Working at its first platform and in its queue *)
C13_Initialized(r) ==
    LET p == paths_input[r][1]
    IN  /\ robots'[r].state = Working
        /\ robots'[r].time_left = Duration(r, p)
        /\ platform_map'[p].state = Busy
        /\ \E i \in DOMAIN platform_map'[p].cur_visitor :
               platform_map'[p].cur_visitor[i] = r

C13_Step ==
    /\ pc = "loaded" =>
          /\ self_robots' = SwapSecondThird(Len(paths_input))
          /\ \A r \in DOMAIN robots : C13_Initialized(r)
    /\ pc = "run" =>
          \A r \in DOMAIN robots :
              Active(r) => robots'[r].time_spend = robots[r].time_spend + 1

(* C13: the initial reorder is a swap of positions 2 and 3.  For every      *)
(* input list __init__ accepts, the scheduler's sequence is the input list  *)
(* with its second and third elements exchanged and the others in place,    *)
(* so every input robot is initialized Working at its first platform and    *)
(* evaluated in every tick while its path is non-empty.                     *)
C13_ReorderIsSwap == [][C13_Step]_vars

----------------------------------------------------------------------------
(* the coming tick's pass over the robots that still have a path *)
PassOfActive ==
    RunPass([robots |-> robots, platform_map |-> platform_map,
             flag |-> FALSE, err |-> "none"],
            SelectSeq(TickOrder, Active))

(* C14: inert after completion.  Once a robot's path is empty no later tick *)
(* changes its state, time_left, time_spend or path, and no later tick      *)
(* changes a platform on its behalf: the platforms after the tick are what  *)
(* the pass over the other robots alone leaves.                             *)
C14_Step ==
    pc = "run" =>
        /\ \A r \in DOMAIN robots : ~Active(r) => robots'[r] = robots[r]
        /\ platform_map' = PassOfActive.platform_map

C14_Inert == [][C14_Step]_vars

(* a boundary where a robot has been finished for several ticks while a     *)
(* robot that came after it is in service at the platform it left last      *)
C14_Witness ==
    /\ pc = "run"
    /\ \E r, q \in RobotIds :
          /\ ~Active(r) /\ robots[r].time_spend + 5 < times
          /\ robots[r].state = Moving
          /\ Active(q) /\ robots[q].state = Working
          /\ Head(robots[q].path) = paths_input[r][Len(paths_input[r])]
          /\ Len(robots[q].path) < Len(paths_input[q])

----------------------------------------------------------------------------
(* r is the first element of the queue q *)
IsFront(q, r) == q # << >> /\ Head(q) = r

(* every Working robot is the front of its platform's queue *)
C15_FrontIsWorking ==
    AtBoundary =>
        \A r \in DOMAIN robots :
            Active(r) /\ robots[r].state = Working =>
                IsFront(platform_map[Head(robots[r].path)].cur_visitor, r)

(* a Working robot whose countdown is over leaves in the coming tick: the   *)
(* id its popleft removes is the front of the queue when it is evaluated    *)
C15_PopsOwnId ==
    pc = "run" =>
        \A r \in DOMAIN robots :
            Active(r) /\ robots[r].state = Working /\ robots[r].time_left <= 0 =>
                IsFront(PassBefore(r).platform_map[Head(robots[r].path)].cur_visitor, r)

(* C15: the front of the queue is the robot in service.  At every tick      *)
(* boundary a robot with a non-empty path that is Working at P is the first *)
(* element of P's cur_visitor, and the id removed from the queue when a     *)
(* Working robot leaves P is that robot's own.                              *)
C15_FrontInService == []C15_FrontIsWorking /\ [][C15_PopsOwnId]_vars

----------------------------------------------------------------------------
(* r is in the queue q *)
InQueue(q, r) == \E i \in DOMAIN q : q[i] = r

(* in the step r, Working at p, leaves it: Working -> Moving *)
Leaves(r, p) ==
    /\ At(r, p) /\ robots[r].state = Working
    /\ robots'[r].state = Moving /\ robots'[r].path = Tail(robots[r].path)

(* in the step r goes from Waiting to Working *)
StartsWork(r) ==
    /\ Active(r) /\ robots[r].state = Waiting
    /\ robots'[r].state = Working /\ robots'[r].path = robots[r].path

(* b is Waiting at p behind a, the entry just before it in p's queue *)
WaitsBehind(b, a, p) ==
    LET q == platform_map[p].cur_visitor
    IN  /\ At(b, p) /\ robots[b].state = Waiting
        /\ InQueue(q, b) /\ Pos(q, b) > 1 /\ q[Pos(q, b) - 1] = a

(* C16: exact wait.  A robot Waiting at P goes to Working in exactly the    *)
(* tick in which the robot immediately ahead of it in P's cur_visitor queue *)
(* leaves P (Working -> Moving): in no earlier and in no later tick; also   *)
(* when two or more robots wait.                                            *)
C16_Step ==
    pc = "run" =>
        \A a, b \in DOMAIN robots : \A p \in DOMAIN platform_map :
            WaitsBehind(b, a, p) => (StartsWork(b) <=> Leaves(a, p))

C16_ExactWait == [][C16_Step]_vars

----------------------------------------------------------------------------
(* r is in service or queued at the platform at the front of its path *)
Arrived(r) ==
    /\ Active(r) /\ robots[r].state \in {Working, Waiting}
    /\ InQueue(platform_map[Head(robots[r].path)].cur_visitor, r)

(* one tick of a robot of velocity at least 1: the departure leaves         *)
(* velocity - 1 ticks of the move, a tick of the move takes exactly one of  *)
(* them and the robot stays Moving, the tick after the last is the arrival  *)
C17_Step ==
    pc = "run" =>
        \A r \in DOMAIN robots : robots[r].velocity >= 1 /\ Active(r) =>
            /\ Leaves(r, Head(robots[r].path)) /\ robots'[r].path # << >> =>
                   robots'[r].time_left = robots[r].velocity - 1
            /\ robots[r].state = Moving /\ robots[r].time_left > 0 =>
                   /\ robots'[r].state = Moving
                   /\ robots'[r].path = robots[r].path
                   /\ robots'[r].time_left = robots[r].time_left - 1
            /\ robots[r].state = Moving /\ robots[r].time_left = 0 =>
                   /\ robots'[r].path = robots[r].path
                   /\ robots'[r].state \in {Working, Waiting}
                   /\ InQueue(platform_map'[Head(robots[r].path)].cur_visitor, r)

(* a Moving robot on the road has between 0 and velocity - 1 ticks to go *)
C17_OnTheRoad ==
    AtBoundary =>
        \A r \in DOMAIN robots :
            robots[r].velocity >= 1 /\ Active(r) /\ robots[r].state = Moving =>
                robots[r].time_left \in 0..(robots[r].velocity - 1)

(* the first edge in absolute ticks: every robot leaves its first platform  *)
(* in tick t = duration + 1, is Moving at the end of ticks t .. t + v - 1   *)
(* and has arrived at the end of tick t + v                                 *)
C17_FirstEdge ==
    AtBoundary =>
        \A r \in DOMAIN robots :
            robots[r].velocity >= 1 /\ Len(paths_input[r]) >= 2 =>
                LET t == Duration(r, paths_input[r][1]) + 1
                    v == robots[r].velocity
                IN  /\ times < t =>
                           robots[r].state = Working /\ robots[r].path = paths_input[r]
                    /\ times \in t..(t + v - 1) =>
                           /\ robots[r].state = Moving
                           /\ robots[r].path = Tail(paths_input[r])
                    /\ times = t + v =>
                           Arrived(r) /\ robots[r].path = Tail(paths_input[r])

(* C17: an edge takes velocity ticks.  A robot of velocity v >= 1 that      *)
(* leaves a platform in tick t with a non-empty remaining path is Moving at *)
(* the end of ticks t .. t + v - 1 and arrives at the next platform (joins  *)
(* its cur_visitor, Working or Waiting) in tick t + v, no earlier or later. *)
C17_EdgeTakesVelocity ==
    [][C17_Step]_vars /\ []C17_OnTheRoad /\ []C17_FirstEdge

(* the end of the tick in which a robot of velocity 5 has reached its       *)
(* second platform, five ticks after the tick of its departure              *)
C17_Witness ==
    /\ pc = "run"
    /\ \E r \in RobotIds :
          /\ robots[r].velocity = 5
          /\ Len(paths_input[r]) >= 2
          /\ times = Duration(r, paths_input[r][1]) + 1 + 5
          /\ Arrived(r) /\ robots[r].path = Tail(paths_input[r])

----------------------------------------------------------------------------
(* the log after the robots of the sequence arrivals have arrived in turn:  *)
(* each is appended unless its id is the last entry                         *)
RECURSIVE LogAll(_, _)
LogAll(log, arrivals) ==
    IF arrivals = << >>
    THEN log
    ELSE LogAll(IF log = << >> \/ log[Len(log)] # Head(arrivals)
                THEN Append(log, Head(arrivals))
                ELSE log,
                Tail(arrivals))

(* the robots that reach p in the coming step, in the order they do:        *)
(* in __init__ the robots that begin at p, in a tick the Moving robots      *)
(* whose countdown is over                                                  *)
ArrivalsAt(p) ==
    IF pc = "loaded"
    THEN SelectSeq(Reorder, LAMBDA r : At(r, p))
    ELSE SelectSeq(self_robots,
                   LAMBDA r : At(r, p) /\ robots[r].state = Moving
                                       /\ robots[r].time_left <= 0)

(* the stops of its path that r has reached so far *)
Reached(r) ==
    {paths_input[r][i] : i \in 1..(Len(paths_input[r]) - Len(robots[r].path))}
        \cup (IF Active(r) /\ robots[r].state # Moving
              THEN {Head(robots[r].path)} ELSE {})

C18_Step ==
    pc \in {"loaded", "run"} =>
        \A p \in DOMAIN platform_map :
            platform_map'[p].visitor = LogAll(platform_map[p].visitor, ArrivalsAt(p))

C18_Logged ==
    AtBoundary =>
        \A p \in DOMAIN platform_map :
            LET log == platform_map[p].visitor
            IN  /\ \A i \in DOMAIN platform_map[p].cur_visitor :
                       InQueue(log, platform_map[p].cur_visitor[i])
                /\ \A r \in DOMAIN robots : p \in Reached(r) => InQueue(log, r)
                /\ \A i \in 1..(Len(log) - 1) : log[i] # log[i + 1]

(* C18: visitor log content.  At every tick boundary every robot id that is *)
(* or has been in a platform's cur_visitor occurs in its visitor list, the  *)
(* entries are in the order of the arrivals, and no two adjacent entries    *)
(* are equal: an arrival is appended unless its id is the last entry.       *)
C18_VisitorLog == [][C18_Step]_vars /\ []C18_Logged

(* a robot has come back to the platform it has just left and its id, the   *)
(* last entry of the log, has not been entered again; another robot has     *)
(* been logged there before it                                              *)
C18_Witness ==
    /\ pc = "run"
    /\ \E r \in RobotIds : \E p \in Platforms :
          /\ Len(robots[r].path) < Len(paths_input[r])
          /\ Arrived(r) /\ Head(robots[r].path) = p
          /\ paths_input[r][Len(paths_input[r]) - Len(robots[r].path)] = p
          /\ Len(platform_map[p].visitor) >= 2
          /\ platform_map[p].visitor[Len(platform_map[p].visitor)] = r
          /\ Cardinality({i \in DOMAIN platform_map[p].visitor :
                             platform_map[p].visitor[i] = r}) = 1

----------------------------------------------------------------------------
(* the robots in service or waiting at p *)
QueuedAt(p) ==
    {r \in DOMAIN robots : At(r, p) /\ robots[r].state \in {Working, Waiting}}

(* C19: the platform's state agrees with its queue.  At every tick boundary *)
(* a platform is Busy iff its cur_visitor is non-empty, a Free platform has *)
(* time_left 0, and the length of cur_visitor is the number of robots with  *)
(* a non-empty path that are Working or Waiting with the platform at the    *)
(* front of their path; so no tick pops an empty queue.                     *)
C19_StateAgreesWithQueue ==
    AtBoundary =>
        /\ \A p \in DOMAIN platform_map :
              /\ platform_map[p].state = Busy <=> platform_map[p].cur_visitor # << >>
              /\ platform_map[p].state = Free => platform_map[p].time_left = 0
              /\ Len(platform_map[p].cur_visitor) = Cardinality(QueuedAt(p))
        /\ pc = "run" => PassResult.err # "IndexError"

(* one platform with a robot in service and two waiting, another that has   *)
(* been left Free by the robot that began on it                             *)
C19_Witness ==
    /\ pc = "run"
    /\ \E p, f \in Platforms :
          /\ Len(platform_map[p].cur_visitor) = 3
          /\ Cardinality(WorkingAt(p)) = 1
          /\ Cardinality(QueuedAt(p)) = 3
          /\ platform_map[f].state = Free
          /\ platform_map[f].cur_visitor = << >>
          /\ platform_map[f].visitor # << >>

----------------------------------------------------------------------------
(* no two robots have the same first platform *)
DistinctFirsts ==
    \A r, q \in DOMAIN paths_input :
        r # q => paths_input[r][1] # paths_input[q][1]

WaitingAt(p) == {r \in DOMAIN robots : At(r, p) /\ robots[r].state = Waiting}

(* the sum of the full service durations at p of the robots of S *)
RECURSIVE SumDuration(_, _)
SumDuration(S, p) ==
    IF S = {}
    THEN 0
    ELSE LET r == CHOOSE x \in S : TRUE
         IN  Duration(r, p) + SumDuration(S \ {r}, p)

(* C20: the platform's time_left accounting identity.  Provided no two      *)
(* robots have the same first platform, at every tick boundary each Busy    *)
(* platform's time_left is the time_left of the robot Working there plus    *)
(* the sum of the full service durations of the robots Waiting there, and   *)
(* is never negative.                                                       *)
C20_TimeLeftIdentity ==
    AtBoundary /\ DistinctFirsts =>
        \A p \in DOMAIN platform_map :
            platform_map[p].state = Busy =>
                /\ \E w \in WorkingAt(p) :
                       /\ WorkingAt(p) = {w}
                       /\ platform_map[p].time_left =
                              robots[w].time_left + SumDuration(WaitingAt(p), p)
                /\ platform_map[p].time_left >= 0

(* a platform in the middle of a service with two robots of different       *)
(* kinds waiting, in a run where every robot began at a platform of its own *)
C20_Witness ==
    /\ pc = "run" /\ DistinctFirsts
    /\ \E p \in Platforms : \E w \in WorkingAt(p) :
          /\ robots[w].time_left > 0
          /\ robots[w].time_left < Duration(w, p) - 1
          /\ Cardinality(WaitingAt(p)) = 2
          /\ \E a, b \in WaitingAt(p) : Duration(a, p) # Duration(b, p)
          /\ platform_map[p].time_left > robots[w].time_left + 45

====
